---- MODULE Spec2Model ----
(***************************************************************************)
(* OTP issuance / verification of the CEG Connect backend (src/index.js):  *)
(* the in-memory otpStorage map, POST /api/auth/send-otp,                  *)
(* POST /api/auth/verify-otp with its suspension points at the Firebase    *)
(* identity calls, and the setInterval clean-up of expired OTPs.           *)
(*                                                                         *)
(* JavaScript runs each handler to its next await without interruption,    *)
(* so one action is one such run.                                          *)
(***************************************************************************)
EXTENDS Integers, Sequences, FiniteSets, TLC

(* ---------------- bounds of the model ---------------- *)

\* number of times the clock is advanced
MaxTicks == 2
\* number of verify-otp requests that may be suspended at a Firebase call
MaxInflight == 2
\* number of requests served (the rate limiter admits 100 per window)
MaxRequests == 5

(* ---------------- program constants ---------------- *)

\* if (storedData.attempts >= 3)
MaxAttempts == 3
\* new Date(Date.now() + 5 * 60 * 1000)
OtpTtlMs == 5 * 60 * 1000
\* setInterval(..., 5 * 60 * 1000)
SweepIntervalMs == 5 * 60 * 1000
\* Math.floor(100000 + Math.random() * 900000): smallest and largest result
OtpLow == 100000
OtpSpan == 900000

(* ---------------- JavaScript values ---------------- *)

\* a request field: a string (sequence of characters), a number or undefined
Undefined == [t |-> "undefined", v |-> 0]
JsString(s) == [t |-> "string", v |-> s]
JsNumber(n) == [t |-> "number", v |-> n]

\* !x is false exactly for a truthy x
Truthy(x) ==
  CASE x.t = "undefined" -> FALSE
    [] x.t = "string" -> x.v # <<>>
    [] x.t = "number" -> x.v # 0

\* a === b : same type and same value, no conversion
StrictEq(a, b) == a.t = b.t /\ a.v = b.v

RECURSIVE Digits(_)
\* the decimal digits of a non-negative integer
Digits(n) == IF n < 10 THEN <<n>> ELSE Append(Digits(n \div 10), n % 10)

\* Number.prototype.toString() of a non-negative integer
NumberToString(n) == JsString(Digits(n))

RECURSIVE DigitsValue(_)
DigitsValue(s) ==
  IF s = <<>> THEN 0 ELSE 10 * DigitsValue(SubSeq(s, 1, Len(s) - 1)) + s[Len(s)]

\* a == b : a number and a string of digits are compared as numbers
LooseEq(a, b) ==
  \/ StrictEq(a, b)
  \/ /\ a.t = "string" /\ b.t = "number" /\ a.v # <<>>
     /\ DigitsValue(a.v) = b.v
  \/ /\ a.t = "number" /\ b.t = "string" /\ b.v # <<>>
     /\ DigitsValue(b.v) = a.v

(* ---------------- inputs ---------------- *)

\* values Math.random() is sampled at, as the integer floor(r * 900000)
RandomSamples == {0, OtpSpan - 1}

\* the one-time codes generateOTP can return here
generateOTP(r) == NumberToString(OtpLow + r)

\* e-mail addresses as sequences of characters; <<>> is a missing address
EmailA == <<"a", "@", "b", ".", "e">>
EmailX == <<"x", "@", "y", ".", "e">>
EmailNoDot == <<"a", "@", "b">>
EmailMissing == <<>>
Emails == {EmailA, EmailX, EmailNoDot, EmailMissing}

\* the addresses among the inputs that are well formed
WellFormedEmails == {EmailA, EmailX}

\* otp fields a client may submit
SubmittedOtps ==
  { generateOTP(r) : r \in RandomSamples }
    \cup { JsNumber(OtpLow), Undefined }

\* the pattern without the dot of the domain: /^[^\s@]+@[^\s@]+$/
emailRegexTest_NoDot(e) ==
  \E at \in 1..Len(e) :
    /\ e[at] = "@"
    /\ \A i \in 1..Len(e) : (e[i] = "@" => i = at) /\ e[i] # " "
    /\ at > 1 /\ at < Len(e)

\* /^[^\s@]+@[^\s@]+\.[^\s@]+$/.test(email)
emailRegexTest(e) ==
  \E at \in 1..Len(e) :
    /\ e[at] = "@"
    /\ \A i \in 1..Len(e) : (e[i] = "@" => i = at) /\ e[i] # " "
    /\ at > 1
    /\ \E dot \in (at + 2)..(Len(e) - 1) : e[dot] = "."

(* ---------------- the Map ---------------- *)

\* Map.prototype.set
MapSet(m, k, v) == [x \in (DOMAIN m) \cup {k} |-> IF x = k THEN v ELSE m[x]]
\* Map.prototype.delete
MapDelete(m, k) == [x \in (DOMAIN m) \ {k} |-> m[x]]
\* Map.prototype.has / a defined result of get
MapHas(m, k) == k \in DOMAIN m

EmptyMap == [x \in {} |-> 0]

(* ---------------- state ---------------- *)

VARIABLES
  otpStorage,   \* const otpStorage = new Map(): email -> {otp, expiresAt, attempts}
  now,          \* the clock read by Date.now() and new Date(), in milliseconds
  ticks,        \* how many times the clock has been advanced
  nextSweepAt,  \* earliest time the setInterval callback runs next
  hits,         \* requests counted by the rate limiter (app.use(limiter))
  calls,        \* verify-otp requests suspended at a Firebase call
  last,         \* the step just taken and the response it sent
  credited,     \* history: tokens issued for the code currently issued to an e-mail
  wrongRun,     \* history: length of the run of wrong codes since the code was issued
  unswept       \* history: the map as the same requests leave it when no clean-up runs

vars == <<otpStorage, now, ticks, nextSweepAt, hits, calls, last, credited, wrongRun,
          unswept>>

Slots == 1..MaxInflight

IdleCall == [pc |-> "idle", email |-> EmailMissing, stale |-> FALSE, legit |-> FALSE]

\* wrongRun value of an e-mail whose verifications are not a run of wrong codes
Off == -1

\* email: the identity answered (none when the request was rejected for its input)
\* replaced: a send-otp overwrote an entry; correct: the otp submitted to
\* verify-otp equals the stored one; removed: entries the clean-up deleted;
\* stale, legit: those of the suspended call that is answered
Event(op, email, kind) ==
  [op |-> op, email |-> email, kind |-> kind, replaced |-> FALSE,
   correct |-> FALSE, removed |-> 0, stale |-> FALSE, legit |-> FALSE]

NoEvent(op) == Event(op, EmailMissing, "none")

(* ---------------- the checks of verify-otp ---------------- *)

\* the expiry is not tested at verification
IsExpired_Never(t, data) == FALSE

\* the comparison the other way round
IsExpired_Inverted(t, data) == t < data.expiresAt

\* new Date() > storedData.expiresAt
IsExpired(t, data) == t > data.expiresAt

\* the limit reached one attempt early
AttemptsExceeded_LimitTwo(data) == data.attempts >= MaxAttempts - 1

\* the limit tested with > instead of >=
AttemptsExceeded_OffByOne(data) == data.attempts > MaxAttempts

\* storedData.attempts >= 3
AttemptsExceeded(data) == data.attempts >= MaxAttempts

\* the codes compared with != instead of !==
OtpDiffers_Loose(data, otp) == ~LooseEq(data.otp, otp)

\* storedData.otp !== otp
OtpDiffers(data, otp) == ~StrictEq(data.otp, otp)

\* the outcome of the handler's run up to its first await
VerifyCheck(store, t, email, otp) ==
  IF email = EmailMissing \/ ~Truthy(otp) THEN "MissingInput"
  ELSE IF ~MapHas(store, email) THEN "NotFoundOrExpired"
  ELSE IF IsExpired(t, store[email]) THEN "Expired"
  ELSE IF AttemptsExceeded(store[email]) THEN "AttemptsExhausted"
  ELSE IF OtpDiffers(store[email], otp) THEN "Mismatch"
  ELSE "Matched"

\* the failed attempt is counted twice
RecordAttempt_Twice(store, email) ==
  MapSet(store, email, [store[email] EXCEPT !.attempts = @ + 2])

\* the failed attempt is not counted
RecordAttempt_Lost(store, email) == store

\* storedData.attempts++; otpStorage.set(email, storedData)
RecordAttempt(store, email) ==
  MapSet(store, email, [store[email] EXCEPT !.attempts = @ + 1])

\* what that run does to the map
VerifyStore(store, t, email, otp) ==
  LET kind == VerifyCheck(store, t, email, otp) IN
  CASE kind \in {"Expired", "AttemptsExhausted"} -> MapDelete(store, email)
    [] kind = "Mismatch" -> RecordAttempt(store, email)
    [] OTHER -> store

\* history: an entry is stored for email and its code is exactly otp
SameCode(store, email, otp) ==
  /\ email \in DOMAIN store
  /\ store[email].otp.t = otp.t /\ store[email].otp.v = otp.v

\* history: the entry read for email is unexpired, under the limit and equal to otp
ReadValid(store, t, email, otp) ==
  /\ SameCode(store, email, otp)
  /\ ~(t > store[email].expiresAt)
  /\ store[email].attempts < 3

\* history: the run of wrong codes after this verification of email
NextWrongRun(store, t, email, otp, run) ==
  IF /\ run \in 0..MaxAttempts
     /\ email \in DOMAIN store
     /\ ~(t > store[email].expiresAt)
     /\ email # EmailMissing
     /\ (otp.t = "string" => otp.v # <<>>) /\ (otp.t = "number" => otp.v # 0)
     /\ otp.t # "undefined"
     /\ (run < MaxAttempts => ~SameCode(store, email, otp))
  THEN run + 1
  ELSE Off

(* ---------------- initial state ---------------- *)

Init ==
  /\ otpStorage = EmptyMap
  /\ now = 0
  /\ ticks = 0
  /\ nextSweepAt = SweepIntervalMs
  /\ hits = 0
  /\ calls = [c \in Slots |-> IdleCall]
  /\ last = NoEvent("init")
  /\ credited = [e \in Emails |-> 0]
  /\ wrongRun = [e \in Emails |-> Off]
  /\ unswept = EmptyMap

(* ---------------- POST /api/auth/send-otp ---------------- *)

\* an entry already stored for the e-mail is kept
StoreOtp_KeepExisting(store, email, otp, t) ==
  IF MapHas(store, email) THEN store
  ELSE MapSet(store, email, [otp |-> otp, expiresAt |-> t + OtpTtlMs, attempts |-> 0])

\* otpStorage.set(email, { otp, expiresAt, attempts: 0 })
StoreOtp(store, email, otp, t) ==
  MapSet(store, email, [otp |-> otp, expiresAt |-> t + OtpTtlMs, attempts |-> 0])

SendOtp(email) ==
  /\ hits < MaxRequests
  /\ hits' = hits + 1
  /\ IF email = EmailMissing \/ ~emailRegexTest(email)
     THEN /\ last' = Event("send", EmailMissing, "InvalidIdentity")
          /\ UNCHANGED <<otpStorage, now, ticks, nextSweepAt, calls, credited, wrongRun,
                         unswept>>
     ELSE \E r \in RandomSamples :
         LET otp == generateOTP(r) IN
         /\ otpStorage' = StoreOtp(otpStorage, email, otp, now)
         /\ unswept' = StoreOtp(unswept, email, otp, now)
         /\ last' = [Event("send", email, "Sent") EXCEPT
                       !.replaced = MapHas(otpStorage, email)]
         /\ calls' = [c \in Slots |->
                        IF calls[c].pc # "idle" /\ calls[c].email = email
                        THEN [calls[c] EXCEPT !.stale = TRUE] ELSE calls[c]]
         /\ credited' = [credited EXCEPT ![email] = 0]
         /\ wrongRun' = [wrongRun EXCEPT ![email] = 0]
         /\ UNCHANGED <<now, ticks, nextSweepAt>>

(* ---------------- POST /api/auth/verify-otp ---------------- *)

FreeSlots == {c \in Slots : calls[c].pc = "idle"}

\* the suspended handlers once handler c has responded: the handlers have no
\* identity of their own, so the remaining ones are kept in the lowest slots
Release(c) ==
  [i \in Slots |->
     IF i < c THEN calls[i] ELSE IF i < MaxInflight THEN calls[i + 1] ELSE IdleCall]

\* the handler from its start to its first await or to its early return
VerifyOtp(email, otp) ==
  LET kind == VerifyCheck(otpStorage, now, email, otp) IN
  /\ hits < MaxRequests
  /\ hits' = hits + 1
  /\ otpStorage' = VerifyStore(otpStorage, now, email, otp)
  /\ unswept' = VerifyStore(unswept, now, email, otp)
  /\ last' = [Event("verify", IF kind = "MissingInput" THEN EmailMissing ELSE email, kind)
                EXCEPT !.correct = kind # "MissingInput" /\ SameCode(otpStorage, email, otp)]
  /\ wrongRun' = [wrongRun EXCEPT
                    ![email] = NextWrongRun(otpStorage, now, email, otp, @)]
  /\ IF kind = "Matched"
     THEN /\ FreeSlots # {}
          /\ LET c == CHOOSE x \in FreeSlots : \A y \in FreeSlots : x <= y IN
             calls' = [calls EXCEPT ![c] =
                         [pc |-> "issuer", email |-> email, stale |-> FALSE,
                          legit |-> ReadValid(otpStorage, now, email, otp)]]
     ELSE calls' = calls
  /\ UNCHANGED <<now, ticks, nextSweepAt, credited>>

\* the clean-up is left out
CleanUpOtp_Missing(store, email) == store

\* otpStorage.delete(email) after the token has been created
CleanUpOtp(store, email) == MapDelete(store, email)

\* The handler is suspended at await getUserByEmail, then (when that rejects) at
\* await createUser, then at await createCustomToken.  Nothing between these
\* awaits reads or writes program state, so the suspension is one position,
\* "issuer", left by one of the two continuations below.

\* every awaited call resolved (getUserByEmail or else createUser, then
\* createCustomToken): clean up the OTP and respond with the token
IssuerResolves(c) ==
  /\ calls[c].pc = "issuer"
  /\ otpStorage' = CleanUpOtp(otpStorage, calls[c].email)
  /\ unswept' = CleanUpOtp(unswept, calls[c].email)
  /\ calls' = Release(c)
  /\ last' = [Event("issued", calls[c].email, "Success") EXCEPT
                !.stale = calls[c].stale, !.legit = calls[c].legit]
  /\ credited' = [credited EXCEPT ![calls[c].email] =
                    IF calls[c].stale THEN @ ELSE IF @ < 2 THEN @ + 1 ELSE @]
  /\ wrongRun' = [wrongRun EXCEPT ![calls[c].email] = Off]
  /\ UNCHANGED <<now, ticks, nextSweepAt, hits>>

\* createUser or createCustomToken rejected: the catch (firebaseError) responds
\* with status 500 and leaves the map as it is
IssuerRejects(c) ==
  /\ calls[c].pc = "issuer"
  /\ calls' = Release(c)
  /\ last' = [Event("issued", calls[c].email, "IssuerFailure") EXCEPT
                !.stale = calls[c].stale, !.legit = calls[c].legit]
  /\ wrongRun' = [wrongRun EXCEPT ![calls[c].email] = Off]
  /\ UNCHANGED <<otpStorage, now, ticks, nextSweepAt, hits, credited, unswept>>

(* ---------------- clean-up of expired OTPs ---------------- *)

\* the callback removes nothing
SweepRemoves_Never(t, data) == FALSE

\* entries at their expiry time are removed too
SweepRemoves_AtExpiry(t, data) == t >= data.expiresAt

\* if (now > data.expiresAt) otpStorage.delete(email)
SweepRemoves(t, data) == t > data.expiresAt

\* the map after the for-of loop of the interval callback
SweepStore(store, t) ==
  [e \in {x \in DOMAIN store : ~SweepRemoves(t, store[x])} |-> store[e]]

Sweep ==
  /\ now >= nextSweepAt
  /\ otpStorage' = SweepStore(otpStorage, now)
  /\ nextSweepAt' = now + SweepIntervalMs
  /\ last' = [NoEvent("sweep") EXCEPT
                !.removed = Cardinality(DOMAIN otpStorage) - Cardinality(DOMAIN otpStorage')]
  /\ UNCHANGED <<now, ticks, hits, calls, credited, wrongRun, unswept>>

(* ---------------- time ---------------- *)

\* the clock advances by a whole validity window: a code issued at one reading
\* is at its expiry time (still valid) at the next and past it at the one after
TickSteps == {OtpTtlMs}

Tick(d) ==
  /\ ticks < MaxTicks
  /\ now' = now + d
  /\ ticks' = ticks + 1
  /\ last' = NoEvent("tick")
  /\ UNCHANGED <<otpStorage, nextSweepAt, hits, calls, credited, wrongRun, unswept>>

(* ---------------- specification ---------------- *)

Next ==
  \/ \E email \in Emails : SendOtp(email)
  \/ \E email \in Emails, otp \in SubmittedOtps : VerifyOtp(email, otp)
  \/ \E c \in Slots : IssuerResolves(c)
  \/ \E c \in Slots : IssuerRejects(c)
  \/ Sweep
  \/ \E d \in TickSteps : Tick(d)

Spec == Init /\ [][Next]_vars

\* the timer fires its callback when it is due, and time passes
FairSpec ==
  /\ Spec
  /\ WF_vars(Sweep)
  /\ WF_vars(\E d \in TickSteps : Tick(d))

TypeOK ==
  /\ now \in Nat /\ ticks \in 0..MaxTicks
  /\ DOMAIN otpStorage \subseteq Emails

(* ---------------- properties ---------------- *)

\* a verify-otp that matched the entry stored for e is suspended
MatchedInFlight(e) ==
  \E c \in Slots : calls[c].pc = "issuer" /\ calls[c].email = e /\ ~calls[c].stale

\* a verify-otp request for e that got past the input check has just run
Verified(e) == last.op = "verify" /\ last.email = e /\ e # EmailMissing

\* C1: A verify-otp with the issued code that immediately follows the send-otp
\* for the same e-mail passes every check (it is answered with the token once
\* the Firebase calls resolve); that answer leaves no entry for the e-mail; and
\* once it has been given, every further verify-otp for the e-mail is answered
\* "OTP not found or expired" until a new send-otp.
C1_CodeSucceedsExactlyOnce ==
  [][ /\ ( /\ last.op = "send" /\ last.kind = "Sent"
           /\ last'.op = "verify" /\ last'.email = last.email /\ last'.correct )
         => last'.kind = "Matched"
      /\ ( last'.op = "issued" /\ last'.kind = "Success" /\ ~last'.stale )
         => ~MapHas(otpStorage', last'.email)
      /\ \A e \in Emails :
           ( credited[e] >= 1 /\ last'.op = "verify" /\ last'.email = e )
             => last'.kind = "NotFoundOrExpired"
    ]_vars

\* C1 witness: the code was answered with a token and the next verify-otp for
\* the e-mail was answered "OTP not found or expired"
C1_Witness ==
  \E e \in Emails :
    credited[e] = 1 /\ Verified(e) /\ last.kind = "NotFoundOrExpired"

\* C2: Of the overlapping verify-otp requests that submit the code issued to an
\* e-mail, at most one is answered with a token.
C2_AtMostOneToken == \A e \in Emails : credited[e] <= 1

\* C3: When a verify-otp that matched the code is answered with the failure of
\* the Firebase calls, no entry is stored for its e-mail (unless a later
\* send-otp stored a new one).
C3_IssuerFailureConsumesCode ==
  ( last.op = "issued" /\ last.kind = "IssuerFailure" /\ ~last.stale )
    => ~MapHas(otpStorage, last.email)

\* the answers the original C4 expects to the 1st..4th call of a run
C4_OriginalAnswer(k) ==
  CASE k \in {1, 2} -> "Mismatch"
    [] k = 3 -> "AttemptsExhausted"
    [] k = 4 -> "NotFoundOrExpired"

\* C4 as stated: on a freshly issued, unexpired code three consecutive wrong
\* codes are answered Mismatch, Mismatch, AttemptsExhausted and a fourth call
\* NotFoundOrExpired.
C4_Original ==
  \A e \in Emails :
    ( Verified(e) /\ wrongRun[e] \in 1..4 )
      => last.kind = C4_OriginalAnswer(wrongRun[e])

\* C4 (amended): on a freshly issued, unexpired code three consecutive wrong
\* codes are each answered Mismatch and leave the entry stored with as many
\* attempts; a fourth call before expiry, with any code, is answered
\* AttemptsExhausted and removes the entry.
C4_ThreeMismatchesThenExhausted ==
  \A e \in Emails :
    /\ ( Verified(e) /\ wrongRun[e] \in 1..3 )
         => /\ last.kind = "Mismatch"
            /\ MapHas(otpStorage, e) /\ otpStorage[e].attempts = wrongRun[e]
    /\ ( Verified(e) /\ wrongRun[e] = 4 )
         => last.kind = "AttemptsExhausted" /\ ~MapHas(otpStorage, e)

\* C4 witness: the fourth call submitted the issued code and was refused
C4_Witness ==
  \E e \in Emails :
    Verified(e) /\ wrongRun[e] = 4 /\ last.correct /\ last.kind = "AttemptsExhausted"

C6_SecondRequestReplacesFirst ==
  [][ \A e \in Emails :
        ( /\ last'.op = "send" /\ last'.kind = "Sent" /\ last'.email = e
          /\ MapHas(otpStorage, e) )
          => /\ MapHas(otpStorage', e)
             /\ otpStorage'[e].attempts = 0
             /\ otpStorage'[e].expiresAt = now + OtpTtlMs
             /\ otpStorage'[e].otp \in {generateOTP(r) : r \in RandomSamples}
             /\ VerifyCheck(otpStorage', now', e, otpStorage'[e].otp) = "Matched"
             /\ otpStorage[e].otp # otpStorage'[e].otp
                  => VerifyCheck(otpStorage', now', e, otpStorage[e].otp) = "Mismatch"
             /\ \A x \in DOMAIN otpStorage' :
                  x # e => MapHas(otpStorage, x) /\ otpStorage'[x] = otpStorage[x]
    ]_vars

\* C6 witness: a second send-otp has just replaced an entry that no verify-otp
\* had consumed
C6_Witness ==
  \E e \in Emails :
    /\ last.op = "send" /\ last.kind = "Sent" /\ last.email = e /\ last.replaced
    /\ MapHas(otpStorage, e) /\ otpStorage[e].attempts = 0
    /\ credited[e] = 0 /\ ~MatchedInFlight(e)

\* C7: A run of the clean-up removes exactly the entries whose expiry time is
\* strictly before the current time and leaves every other entry as it was.
C7_SweepRemovesOnlyExpired ==
  [][ last'.op = "sweep"
        => /\ DOMAIN otpStorage' =
                {e \in DOMAIN otpStorage : ~(otpStorage[e].expiresAt < now)}
           /\ \A e \in DOMAIN otpStorage' : otpStorage'[e] = otpStorage[e]
    ]_vars

\* C7 witness: a clean-up removed an entry and kept one that is at its expiry time
C7_Witness ==
  /\ last.op = "sweep" /\ last.removed >= 1
  /\ \E e \in DOMAIN otpStorage : otpStorage[e].expiresAt = now

\* C8: Every stored entry has between 0 and 3 attempts.
C8_AttemptsWithinLimit ==
  \A e \in DOMAIN otpStorage : otpStorage[e].attempts \in 0..MaxAttempts

\* C8 witness: an entry with 3 attempts is stored
C8_Witness ==
  \E e \in DOMAIN otpStorage : otpStorage[e].attempts = MaxAttempts

\* C9: Every stored entry is live: unexpired, with fewer than 3 attempts and not
\* matched by a verify-otp.
C9_StoredEntriesAreLive ==
  \A e \in DOMAIN otpStorage :
    /\ ~(now > otpStorage[e].expiresAt)
    /\ otpStorage[e].attempts < MaxAttempts
    /\ ~MatchedInFlight(e)

\* C10: A verify-otp gets past the checks, and is answered with a token, only
\* when the entry it read for its e-mail held exactly the submitted code, was
\* unexpired and had fewer than 3 attempts.
C10_TokenOnlyForValidCode ==
  /\ \A c \in Slots : calls[c].pc = "issuer" => calls[c].legit
  /\ ( last.op = "issued" /\ last.kind = "Success" ) => last.legit

\* C10 witness: a token was issued
C10_Witness == last.op = "issued" /\ last.kind = "Success" /\ last.legit

\* C11: A verify-otp that submits the stored code of an unexpired entry passes
\* the checks exactly when the entry has fewer than 3 attempts, so it still
\* passes after one or two Mismatch answers; on an unexpired entry with 3
\* attempts every verify-otp, also one with the stored code, is answered
\* AttemptsExhausted and removes the entry.
C11_RetryBudget ==
  [][ \A e \in Emails :
        ( /\ last'.op = "verify" /\ last'.email = e /\ e # EmailMissing
          /\ MapHas(otpStorage, e) /\ ~(now > otpStorage[e].expiresAt) )
          => /\ last'.correct
                  => ( last'.kind = "Matched" <=> otpStorage[e].attempts < MaxAttempts )
             /\ otpStorage[e].attempts >= MaxAttempts
                  => last'.kind = "AttemptsExhausted" /\ ~MapHas(otpStorage', e)
    ]_vars

\* C11 witness: the stored code was accepted after two Mismatch answers
C11_Witness ==
  \E e \in Emails :
    /\ Verified(e) /\ last.correct /\ last.kind = "Matched"
    /\ MapHas(otpStorage, e) /\ otpStorage[e].attempts = 2

\* C12: A verify-otp answered Mismatch adds exactly 1 to the attempts of its
\* e-mail's entry and leaves the entry's code and expiry time, and every other
\* entry, as they were; and no other step alters an entry that stays stored,
\* except a send-otp for its e-mail, so the attempts of an entry always equal
\* the number of Mismatch answers given on it, however the requests interleave.
C12_MismatchCountsOnce ==
  [][ \A e \in Emails :
        /\ ( last'.op = "verify" /\ last'.email = e /\ last'.kind = "Mismatch" )
             => /\ MapHas(otpStorage, e) /\ MapHas(otpStorage', e)
                /\ otpStorage'[e] =
                     [otpStorage[e] EXCEPT !.attempts = otpStorage[e].attempts + 1]
                /\ \A x \in Emails \ {e} :
                     /\ MapHas(otpStorage', x) <=> MapHas(otpStorage, x)
                     /\ MapHas(otpStorage, x) => otpStorage'[x] = otpStorage[x]
        /\ ( MapHas(otpStorage, e) /\ MapHas(otpStorage', e)
             /\ otpStorage'[e] # otpStorage[e] )
             => \/ last'.op = "verify" /\ last'.email = e /\ last'.kind = "Mismatch"
                \/ last'.op = "send" /\ last'.email = e /\ last'.kind = "Sent"
    ]_vars

\* C12 witness: the second Mismatch on an entry was counted while a verify-otp
\* that had matched the entry was suspended
C12_Witness ==
  \E e \in Emails :
    /\ Verified(e) /\ last.kind = "Mismatch" /\ MatchedInFlight(e)
    /\ MapHas(otpStorage, e) /\ otpStorage[e].attempts = 2

\* C13: An entry leaves the map only through a verify-otp that checked that
\* very entry (found it expired or exhausted, or matched it and was answered
\* with the token) or through the clean-up after its expiry; in particular an
\* entry stored by a send-otp while an earlier verify-otp for the e-mail is
\* suspended is still stored when that verify-otp is answered.
C13_RemovedOnlyByOwnVerification ==
  [][ \A e \in Emails :
        ( MapHas(otpStorage, e) /\ ~MapHas(otpStorage', e) )
          => \/ /\ last'.op = "verify" /\ last'.email = e
                /\ last'.kind \in {"Expired", "AttemptsExhausted"}
             \/ /\ last'.op = "issued" /\ last'.email = e
                /\ last'.kind = "Success" /\ ~last'.stale
             \/ /\ last'.op = "sweep" /\ now > otpStorage[e].expiresAt
    ]_vars

\* the answer of verify-otp, with the two answers to a code that has expired
\* (entry still stored, or already removed) taken as one
Outcome(store, e, otp) ==
  LET kind == VerifyCheck(store, now, e, otp) IN
  IF kind \in {"Expired", "NotFoundOrExpired"} THEN "Refused" ELSE kind

\* C14: Against the run of the same requests in which the clean-up never runs
\* (unswept), every verify-otp gets the same answer in both runs (it passes
\* the checks in both or is refused in both, for the same reason),
\* and the two maps hold the same entry for every e-mail whose entry has not
\* expired: the maps differ only by expired entries the clean-up removed, which
\* verify-otp refuses anyway.
C14_SweepDoesNotDecide ==
  /\ \A e \in DOMAIN otpStorage : MapHas(unswept, e) /\ unswept[e] = otpStorage[e]
  /\ \A e \in DOMAIN unswept :
       /\ ~(now > unswept[e].expiresAt) => MapHas(otpStorage, e)
       /\ \A otp \in SubmittedOtps :
            Outcome(otpStorage, e, otp) = Outcome(unswept, e, otp)

\* C14 witness: a verify-otp passed the checks after a clean-up had removed an
\* entry that the run without clean-up still holds
C14_Witness ==
  /\ otpStorage # unswept
  /\ last.op = "verify" /\ last.kind = "Matched"

\* an entry past its expiry time is stored for e
ExpiredStored(e) == MapHas(otpStorage, e) /\ now > otpStorage[e].expiresAt

\* the last reading of the model's clock
LastReading == MaxTicks * OtpTtlMs

\* C15: With the timer firing and time passing no entry stays stored for ever
\* once the clock passes its expiry time: a run of the clean-up removes every
\* entry past its expiry time, and again and again the map holds no entry
\* whose expiry time the clock passes (the clock of the model stops at
\* LastReading, so an entry expiring then or later can stay).
C15_ExpiredEntriesAreRemoved ==
  /\ [][ last'.op = "sweep" => \A e \in Emails : ExpiredStored(e) => ~MapHas(otpStorage', e) ]_vars
  /\ []<>(\A e \in DOMAIN otpStorage : otpStorage[e].expiresAt >= LastReading)

\* C15 witness: a run of the clean-up has emptied the map of its expired entries
C15_Witness ==
  /\ last.op = "sweep" /\ last.removed >= 1
  /\ otpStorage = EmptyMap /\ unswept # EmptyMap

\* C16: A send-otp rejected for its address (InvalidIdentity), a verify-otp
\* rejected for a missing e-mail or otp (MissingInput) and a verify-otp that
\* finds no entry (NotFoundOrExpired) leave the map exactly as it was; no
\* entry is ever stored for a missing or malformed address.
C16_RejectedCallsChangeNothing ==
  /\ [][ last'.kind \in {"InvalidIdentity", "MissingInput", "NotFoundOrExpired"}
           => otpStorage' = otpStorage ]_vars
  /\ [](DOMAIN otpStorage \subseteq WellFormedEmails)

\* C16 witness: a request was rejected for its input while entries were stored
C16_Witness ==
  /\ last.kind \in {"InvalidIdentity", "MissingInput"}
  /\ DOMAIN otpStorage = WellFormedEmails

====
